---- MODULE Spec2Model ----
(***************************************************************************)
(* Model of the keygen client (src/keygen/client.go): the transport        *)
(* executor Client.do, the operations built on it, and a stub server that  *)
(* answers every exchange with an arbitrary outcome.                       *)
(***************************************************************************)
EXTENDS Integers, Sequences, FiniteSets, TLC

\* client .. closes: one caller running one operation at a time; resolved
\* is its history: the license keys earlier calls resolved to an ID.
\* server, calls: a stub server with fixed pages and the listing calls that
\* run against it at the same time (SpecListings).
\* herr: an HTTPError value and the result of the method called on it
\* (SpecHTTPError).
VARIABLES client, pc, op, args, page, out, licenseID, ret, reqs, resps, closes,
          resolved, server, calls, herr

vars == <<client, pc, op, args, page, out, licenseID, ret, reqs, resps, closes,
          resolved, server, calls, herr>>

(* ----------------------------- bounds ---------------------------------- *)

\* Largest page number a paged listing is followed to.
MaxPages == 3

\* Number of listing calls that run on one client at the same time.
MaxCalls == 2

(* ------------------------ client configuration ------------------------- *)

DefaultBaseURL == "https://api.keygen.sh/v1"

\* A base URL that url.Parse rejects (a space in the host name).
BadBaseURL == "http://bad host"

\* The address of a stub server given with WithBaseURL.
StubBaseURL == "http://127.0.0.1:8080"

\* Client{...} literal of New, before the options are applied.
NewDefaults(accountID, apiToken) ==
    [accountID |-> accountID, apiToken |-> apiToken, baseURL |-> DefaultBaseURL,
     defaultMachineName |-> "dappnode", defaultPlatform |-> "linux"]

WithBaseURL(c, u) == [c EXCEPT !.baseURL = u]

\* WithDefaultMachine without the tests for empty arguments.
WithDefaultMachine_NoEmptyTest(c, name, platform) ==
    [c EXCEPT !.defaultMachineName = name, !.defaultPlatform = platform]

WithDefaultMachine(c, name, platform) ==
    LET c1 == IF name # "" THEN [c EXCEPT !.defaultMachineName = name] ELSE c
    IN  IF platform # "" THEN [c1 EXCEPT !.defaultPlatform = platform] ELSE c1

\* New(accountID, apiToken, WithBaseURL(u), WithDefaultMachine(name, platform))
New(accountID, apiToken, u, name, platform) ==
    WithDefaultMachine(WithBaseURL(NewDefaults(accountID, apiToken), u), name, platform)

(* --------------------------- the wire: JSON ---------------------------- *)

\* Items a collection page can carry (a license or a machine resource).
ItemA == [id |-> "m1", fingerprint |-> "fp1", key |-> "KEY1"]
ItemB == [id |-> "m2", fingerprint |-> "fp1", key |-> ""]

ItemSeqs == {<< >>, <<ItemA>>, <<ItemB, ItemA>>}

\* JSON documents the stub server can serve.
ListDocs == [t : {"list"}, items : ItemSeqs, next : BOOLEAN]
ObjDocs  == {[t |-> "obj", id |-> "lic1", key |-> "KEY1"],
             [t |-> "obj", id |-> "", key |-> "KEY1"],
             [t |-> "obj", id |-> "lic1", key |-> ""]}
EmptyDoc == [t |-> "empty"]
Docs     == ListDocs \cup ObjDocs \cup {EmptyDoc}

RenderItem(i) ==
    "{\"id\":\"" \o i.id \o "\",\"attributes\":{\"fingerprint\":\"" \o i.fingerprint
        \o "\",\"key\":\"" \o i.key \o "\"}}"

RECURSIVE RenderItems(_)
RenderItems(s) ==
    IF s = << >> THEN ""
    ELSE IF Len(s) = 1 THEN RenderItem(s[1])
    ELSE RenderItem(s[1]) \o "," \o RenderItems(Tail(s))

\* The bytes the server writes for a document.
Render(d) ==
    IF d.t = "empty" THEN "{}"
    ELSE IF d.t = "obj"
    THEN "{\"data\":{\"id\":\"" \o d.id \o "\",\"attributes\":{\"key\":\"" \o d.key \o "\"}}}"
    ELSE "{\"data\":[" \o RenderItems(d.items) \o "],\"links\":{\"next\":"
             \o (IF d.next THEN "\"/v1/next\"" ELSE "null") \o "}}"

ErrorBody == "{\"errors\":[{\"code\":\"MACHINE_LIMIT_EXCEEDED\"}]}"
Garbage   == "<html>"

\* Response bodies: the rendered documents, an error document, an empty body
\* and a body that is no JSON.
Bodies == {Render(d) : d \in Docs} \cup {ErrorBody, "", Garbage}

\* encoding/json reading one value from each of the bodies: what the document
\* says about data and links, or why there is no value.
ParseTable ==
    [b \in Bodies |->
        IF b = "" THEN [t |-> "EOF"]
        ELSE IF b = ErrorBody THEN EmptyDoc   \* an object without data / links
        ELSE IF \E d \in Docs : Render(d) = b THEN CHOOSE d \in Docs : Render(d) = b
        ELSE [t |-> "syntax"]]

JSONParse(b) == ParseTable[b]

ObjShapes  == {"licenseCreateResponse", "licenseValidationResponse", "machineResponse"}
ListShapes == {"getLicenseBySubscriptionResponse", "listLicensesByPolicyResponse",
               "machinesListResponse"}

\* The zero value of every response struct.
ZeroOut == [ID |-> "", Key |-> "", Data |-> << >>, Next |-> FALSE]

\* Storing the JSON value v into a response struct of wire.go: Data is a
\* struct in ObjShapes and a slice in ListShapes; Links.Next is a pointer, nil
\* when "next" is null or missing.
Unmarshal(shape, v) ==
    IF v.t = "EOF" THEN [ok |-> FALSE, cause |-> "EOF", out |-> ZeroOut]
    ELSE IF v.t = "syntax"
    THEN [ok |-> FALSE, cause |-> "invalid character '<' looking for beginning of value",
          out |-> ZeroOut]
    ELSE IF v.t = "empty" THEN [ok |-> TRUE, cause |-> "", out |-> ZeroOut]
    ELSE IF v.t = "obj"
    THEN IF shape \in ObjShapes
         THEN [ok |-> TRUE, cause |-> "", out |-> [ZeroOut EXCEPT !.ID = v.id, !.Key = v.key]]
         ELSE [ok |-> FALSE, cause |-> "json: cannot unmarshal object into Go struct field .data",
               out |-> ZeroOut]
    ELSE IF shape \in ListShapes
         THEN [ok |-> TRUE, cause |-> "",
               out |-> [ZeroOut EXCEPT !.Data = v.items, !.Next = v.next]]
         ELSE [ok |-> FALSE, cause |-> "json: cannot unmarshal array into Go struct field .data",
               out |-> ZeroOut]

\* json.NewDecoder(body).Decode(out)
Decode(shape, b) == Unmarshal(shape, JSONParse(b))

(* ------------------------------ errors --------------------------------- *)

\* A nil error.
NoErr == [type |-> "nil", site |-> "", msg |-> ""]

\* fmt.Errorf(format, ...): *fmt.wrapError when the format has %w, otherwise
\* *errors.errorString.  site names the statement that built the error.
Errorf(site, msg, wraps) ==
    [type |-> IF wraps THEN "*fmt.wrapError" ELSE "*errors.errorString",
     site |-> site, msg |-> msg]

(* --------------------------- request paths ----------------------------- *)

\* url.QueryEscape on the keys and values the client uses.
QueryEscape(s) ==
    IF s = "page[number]" THEN "page%5Bnumber%5D"
    ELSE IF s = "page[size]" THEN "page%5Bsize%5D"
    ELSE IF s = "metadata[subscriptionId]" THEN "metadata%5BsubscriptionId%5D"
    ELSE s

\* The query keys of the client in sorted order (url.Values.Encode sorts by key).
SortedKeys == <<"license", "metadata[subscriptionId]", "page[number]", "page[size]", "policy">>

RECURSIVE EncodeFrom(_, _, _)
EncodeFrom(q, i, first) ==
    IF i > Len(SortedKeys) THEN ""
    ELSE IF SortedKeys[i] \in DOMAIN q
    THEN (IF first THEN "" ELSE "&")
             \o QueryEscape(SortedKeys[i]) \o "=" \o QueryEscape(q[SortedKeys[i]])
             \o EncodeFrom(q, i + 1, FALSE)
    ELSE EncodeFrom(q, i + 1, first)

\* url.Values.Encode(): q maps each key that was Set to its value.
Encode(q) == EncodeFrom(q, 1, TRUE)

\* strconv.Itoa
Itoa(n) == ToString(n)

LicensesPath(c) == "/accounts/" \o c.accountID \o "/licenses"
LicensePath(c, id) == "/accounts/" \o c.accountID \o "/licenses/" \o id
MachinesPath(c) == "/accounts/" \o c.accountID \o "/machines"
MachinePath(c, id) == "/accounts/" \o c.accountID \o "/machines/" \o id
ValidateKeyPath(c) == "/accounts/" \o c.accountID \o "/licenses/actions/validate-key"

(* ------------------------- the stub server ----------------------------- *)

\* Statuses the server answers with: the ends of the success range, its
\* neighbours on both sides (101 is the status below 200 that net/http hands
\* to the caller) and the 422 of the API's validation failures.
StatusCodes == {101, 200, 299, 300, 422}

\* Bodies served with a failure status: do reads them but never decodes them.
FailureBodies == {ErrorBody, "", Garbage}

\* What the transport can give back for one request: no response at all
\* (body holds the transport's message: the connection failed, or ctx was
\* cancelled before a response came), a response with a status and a body, or
\* a response whose body is cut: ctx is cancelled after the status line and
\* headers came, and reading resp.Body fails with context.Canceled after the
\* bytes in body.
NetOutcomes ==
    [kind : {"neterr"}, code : {0}, body : {"connection refused", "context canceled"}]
        \cup [kind : {"resp"}, code : {c \in StatusCodes : c \in 200..299}, body : Bodies]
        \cup [kind : {"resp"}, code : {c \in StatusCodes : c \notin 200..299}, body : FailureBodies]
        \cup [kind : {"cut"}, code : {200, 422}, body : {""}]

(* ------------------------ HTTP plumbing: do ---------------------------- *)

\* No decode target (out == nil) and no request body (in == nil).
Nil == "nil"
NoBody == [nil |-> TRUE]

\* http.NewRequestWithContext fails when c.baseURL+path does not parse.
URLParses(c, path) == c.baseURL # BadBaseURL

\* IsErrorStatus with the lower limit off by one: 200 counts as a failure.
IsErrorStatus_OffByOne(httpCode) == httpCode <= 200 \/ httpCode >= 300

\* The test of do for a response that is an API failure.
IsErrorStatus(httpCode) == httpCode < 200 \/ httpCode >= 300

\* StatusError with the method and path arguments of the format swapped.
StatusError_SwappedArgs(method, path, httpCode, b) ==
    IF Len(b) = 0
    THEN Errorf("status", "keygen: " \o path \o " " \o method \o " -> HTTP " \o ToString(httpCode),
                FALSE)
    ELSE Errorf("status", "keygen: " \o path \o " " \o method \o " -> HTTP " \o ToString(httpCode)
                              \o ": " \o b, FALSE)

\* StatusError without the test for an empty body.
StatusError_TrailingColon(method, path, httpCode, b) ==
    Errorf("status", "keygen: " \o method \o " " \o path \o " -> HTTP " \o ToString(httpCode)
                         \o ": " \o b, FALSE)

\* The error do returns for a non-2xx response with body b.
StatusError(method, path, httpCode, b) ==
    IF Len(b) = 0
    THEN Errorf("status", "keygen: " \o method \o " " \o path \o " -> HTTP " \o ToString(httpCode),
                FALSE)
    ELSE Errorf("status", "keygen: " \o method \o " " \o path \o " -> HTTP " \o ToString(httpCode)
                              \o ": " \o b, FALSE)

\* BuildRequest that sets Content-Type on every request.
BuildRequest_AlwaysContentType(c, method, path, in) ==
    [method |-> method, url |-> c.baseURL \o path, path |-> path, body |-> in,
     contentType |-> "application/vnd.api+json",
     accept |-> "application/vnd.api+json",
     authorization |-> "Bearer " \o c.apiToken]

\* The request Client.do builds.
BuildRequest(c, method, path, in) ==
    [method |-> method, url |-> c.baseURL \o path, path |-> path, body |-> in,
     contentType |-> IF in # NoBody THEN "application/vnd.api+json" ELSE "",
     accept |-> "application/vnd.api+json",
     authorization |-> "Bearer " \o c.apiToken]

\* What do has done before the request goes to the transport: nothing sent,
\* nothing received, *out untouched.
Unsent(req) ==
    [httpCode |-> 0, err |-> NoErr, out |-> ZeroOut, sent |-> FALSE, req |-> req,
     closed |-> 0, drained |-> FALSE, decoded |-> FALSE]

\* io.ReadAll(resp.Body) and io.Copy(io.Discard, resp.Body) reach the end of
\* the body unless the read fails; do looks at the error of neither.
ReadToEnd(net) == net.kind = "resp"

\* json.NewDecoder(resp.Body).Decode(out) on the body of the answer net: the
\* decoder hands back the error of a failed read.
DecodeBody(shape, net) ==
    IF net.kind = "cut"
    THEN [ok |-> FALSE, cause |-> "context canceled", out |-> ZeroOut]
    ELSE Decode(shape, net.body)

\* DecodeResult that returns 0 as the status code of a decode failure.
DecodeResult_ZeroCodeOnFailure(u, httpCode, d) ==
    IF ~d.ok
    THEN [u EXCEPT !.sent = TRUE, !.httpCode = 0, !.closed = 1, !.decoded = TRUE,
                   !.err = Errorf("decode", "keygen: decode response: " \o d.cause, TRUE)]
    ELSE [u EXCEPT !.sent = TRUE, !.httpCode = httpCode, !.closed = 1, !.decoded = TRUE,
                   !.out = d.out]

\* DecodeResult that reports a decode failure the way a transport failure is.
DecodeResult_AsTransportError(u, httpCode, d) ==
    IF ~d.ok
    THEN [u EXCEPT !.sent = TRUE, !.httpCode = 0, !.closed = 1, !.decoded = TRUE,
                   !.err = Errorf("doRequest", "keygen: do request: " \o d.cause, TRUE)]
    ELSE [u EXCEPT !.sent = TRUE, !.httpCode = httpCode, !.closed = 1, !.decoded = TRUE,
                   !.out = d.out]

\* DecodeResult that returns on a decode failure without closing the body.
DecodeResult_LeakOnFailure(u, httpCode, d) ==
    IF ~d.ok
    THEN [u EXCEPT !.sent = TRUE, !.httpCode = httpCode, !.closed = 0, !.decoded = TRUE,
                   !.err = Errorf("decode", "keygen: decode response: " \o d.cause, TRUE)]
    ELSE [u EXCEPT !.sent = TRUE, !.httpCode = httpCode, !.closed = 1, !.decoded = TRUE,
                   !.out = d.out]

\* The end of do for a 2xx response with a decode target: d is what Decode got.
\* The deferred resp.Body.Close() runs once on either return.
DecodeResult(u, httpCode, d) ==
    IF ~d.ok
    THEN [u EXCEPT !.sent = TRUE, !.httpCode = httpCode, !.closed = 1, !.decoded = TRUE,
                   !.err = Errorf("decode", "keygen: decode response: " \o d.cause, TRUE)]
    ELSE [u EXCEPT !.sent = TRUE, !.httpCode = httpCode, !.closed = 1, !.decoded = TRUE,
                   !.out = d.out]

\* Exchange that decodes the body of a 2xx response also without a target.
Exchange_DecodeWithoutTarget(u, c, method, path, shape, net) ==
    IF ~URLParses(c, path)
    THEN [u EXCEPT !.err = Errorf("newRequest", "keygen: new request: parse \"" \o c.baseURL
                                      \o path \o "\": invalid character \" \" in host name", TRUE)]
    ELSE IF net.kind = "neterr"
    THEN [u EXCEPT !.sent = TRUE,
                   !.err = Errorf("doRequest", "keygen: do request: " \o net.body, TRUE)]
    ELSE IF IsErrorStatus(net.code)
    THEN [u EXCEPT !.sent = TRUE, !.httpCode = net.code, !.closed = 1,
                   !.drained = ReadToEnd(net),
                   !.err = StatusError(method, path, net.code, net.body)]
    ELSE DecodeResult(u, net.code,
                      DecodeBody(IF shape = Nil THEN "machineResponse" ELSE shape, net))

\* Exchange that reports a transport failure with the status of a bad gateway.
Exchange_NetErrAsStatus(u, c, method, path, shape, net) ==
    IF ~URLParses(c, path)
    THEN [u EXCEPT !.err = Errorf("newRequest", "keygen: new request: parse \"" \o c.baseURL
                                      \o path \o "\": invalid character \" \" in host name", TRUE)]
    ELSE IF net.kind = "neterr"
    THEN [u EXCEPT !.sent = TRUE, !.httpCode = 502,
                   !.err = Errorf("doRequest", "keygen: do request: " \o net.body, TRUE)]
    ELSE IF IsErrorStatus(net.code)
    THEN [u EXCEPT !.sent = TRUE, !.httpCode = net.code, !.closed = 1,
                   !.drained = ReadToEnd(net),
                   !.err = StatusError(method, path, net.code, net.body)]
    ELSE IF shape = Nil
    THEN [u EXCEPT !.sent = TRUE, !.httpCode = net.code, !.closed = 1,
                   !.drained = ReadToEnd(net)]
    ELSE DecodeResult(u, net.code, DecodeBody(shape, net))

\* do from http.NewRequestWithContext on; u is Unsent(req).  The body of a
\* response is closed once by the deferred Close on every return after
\* c.http.Do gave a response; without a response there is nothing to close.
\* The errors of io.ReadAll (line 382) and io.Copy (line 391) are dropped.
Exchange(u, c, method, path, shape, net) ==
    IF ~URLParses(c, path)
    THEN [u EXCEPT !.err = Errorf("newRequest", "keygen: new request: parse \"" \o c.baseURL
                                      \o path \o "\": invalid character \" \" in host name", TRUE)]
    ELSE IF net.kind = "neterr"
    THEN [u EXCEPT !.sent = TRUE,
                   !.err = Errorf("doRequest", "keygen: do request: " \o net.body, TRUE)]
    ELSE IF IsErrorStatus(net.code)
    THEN [u EXCEPT !.sent = TRUE, !.httpCode = net.code, !.closed = 1,
                   !.drained = ReadToEnd(net),
                   !.err = StatusError(method, path, net.code, net.body)]
    ELSE IF shape = Nil
    THEN [u EXCEPT !.sent = TRUE, !.httpCode = net.code, !.closed = 1,
                   !.drained = ReadToEnd(net)]
    ELSE DecodeResult(u, net.code, DecodeBody(shape, net))

\* Client.do(ctx, method, path, in, out) against the transport outcome net.
\* Result: the returned (httpCode, err), the decoded *out, whether a request
\* was sent, and how the response body was handled.
do(c, method, path, in, shape, net) ==
    Exchange(Unsent(BuildRequest(c, method, path, in)), c, method, path, shape, net)

(* --------------------------- call arguments ---------------------------- *)

PolicyIDs       == {"pol1"}
SubscriptionIDs == {"sub1"}
LicenseKeys     == {"KEY1"}
LicenseIDs      == {"lic1"}
Fingerprints    == {"fp1", "fp2"}
Names           == {"", "box"}
Platforms       == {"", "darwin"}
Metas           == {[SubscriptionID |-> "sub1", CustomerEmail |-> "a@example.com"]}

NoArgs == [policyID |-> "", subscriptionID |-> "", licenseKey |-> "", licenseID |-> "",
           fingerprint |-> "", name |-> "", platform |-> ""]

(* ------------------------- values of the client ------------------------ *)

\* A Go slice: nil until something is appended to it.
NilSlice == [isNil |-> TRUE, elems |-> << >>]
EmptySlice == [isNil |-> FALSE, elems |-> << >>]

RECURSIVE DedupInto(_, _)
DedupInto(acc, rest) ==
    IF rest = << >> THEN acc
    ELSE IF \E i \in 1..Len(acc) : acc[i] = rest[1] THEN DedupInto(acc, Tail(rest))
    ELSE DedupInto(Append(acc, rest[1]), Tail(rest))

\* AppendAll that skips the items the slice already holds.
AppendAll_Dedup(sl, xs) ==
    IF xs = << >> THEN sl ELSE [isNil |-> FALSE, elems |-> DedupInto(sl.elems, xs)]

\* out = append(out, x) for every x of xs, in order.
AppendAll(sl, xs) ==
    IF xs = << >> THEN sl ELSE [isNil |-> FALSE, elems |-> sl.elems \o xs]

\* LicenseSummary{ID, Key} and Machine{ID, Fingerprint} built from a resource.
LicenseSummary(d) == [ID |-> d.id, Key |-> d.key]
Machine(d) == [ID |-> d.id, Fingerprint |-> d.fingerprint]

\* The summaries / machines of the resources of one page, in page order.
LicenseSummaries(data) == [i \in 1..Len(data) |-> LicenseSummary(data[i])]
Machines(data) == [i \in 1..Len(data) |-> Machine(data[i])]

\* What an operation returns: the result value (a string, a slice or the
\* found flag, by operation), the status code and the error.
NoRet == [str |-> "", list |-> NilSlice, found |-> FALSE, httpCode |-> 0, err |-> NoErr]
RetStr(v, code, err)   == [NoRet EXCEPT !.str = v, !.httpCode = code, !.err = err]
RetList(l, code, err)  == [NoRet EXCEPT !.list = l, !.httpCode = code, !.err = err]
RetFound(b, code, err) == [NoRet EXCEPT !.found = b, !.httpCode = code, !.err = err]
RetCode(code, err)     == [NoRet EXCEPT !.httpCode = code, !.err = err]

\* What do did with resp.Body in the exchange r: how often it was closed,
\* whether it was read to its end and discarded, whether it went to the decoder.
BodyHandling(r) == [closed |-> r.closed, drained |-> r.drained, decoded |-> r.decoded]

\* The log of the exchanges of the running call: the requests handed to the
\* transport and what the transport gave back for each.
Log(r, net) ==
    /\ reqs'  = IF r.sent THEN Append(reqs, r.req) ELSE reqs
    /\ resps' = IF r.sent THEN Append(resps, net) ELSE resps
    /\ closes' = IF r.sent THEN Append(closes, BodyHandling(r)) ELSE closes

\* No method of an HTTPError has returned anything.
NoResult == [kind |-> "none", str |-> "", err |-> NoErr]

\* No HTTPError value: client.go builds none.
NoHTTPError == [e |-> [nil |-> TRUE], call |-> "", result |-> NoResult]

(* ------------------------------ Init ----------------------------------- *)

Init ==
    /\ client \in {New("acct", "tok", DefaultBaseURL, "", ""),
                   New("acct", "tok2", StubBaseURL, "box", ""),
                   New("acct", "tok", BadBaseURL, "", "osx")}
    /\ pc = "idle"
    /\ op = ""
    /\ args = NoArgs
    /\ page = 0
    /\ out = NilSlice
    /\ licenseID = ""
    /\ ret = NoRet
    /\ reqs = << >>
    /\ resps = << >>
    /\ closes = << >>
    /\ resolved = {}
    /\ server = << >>
    /\ calls = << >>
    /\ herr = NoHTTPError

\* An operation returns: pc goes to "done" with its results in ret.
Finish(name, a, r) ==
    /\ pc' = "done"
    /\ op' = name
    /\ args' = a
    /\ ret' = r

(* ----------------------------- licenses -------------------------------- *)

\* CreateLicenseResult without the test for an empty key.
CreateLicenseResult_NoEmptyCheck(r) ==
    IF r.err # NoErr THEN RetStr("", r.httpCode, r.err)
    ELSE RetStr(r.out.Key, r.httpCode, NoErr)

\* What CreateLicense returns after do returned r.
CreateLicenseResult(r) ==
    IF r.err # NoErr THEN RetStr("", r.httpCode, r.err)
    ELSE IF r.out.Key = ""
    THEN RetStr("", r.httpCode,
                Errorf("semantic", "keygen: license creation returned empty key", FALSE))
    ELSE RetStr(r.out.Key, r.httpCode, NoErr)

CreateLicense(policyID, meta, net) ==
    /\ pc = "idle"
    /\ \E r \in {do(client, "POST", LicensesPath(client),
                    [type |-> "licenses", metadata |-> meta, policy |-> policyID],
                    "licenseCreateResponse", net)} :
           /\ Finish("CreateLicense", [NoArgs EXCEPT !.policyID = policyID], CreateLicenseResult(r))
           /\ Log(r, net)
    /\ UNCHANGED <<herr, resolved, server, calls, client, page, out, licenseID>>

DeleteLicense(id, net) ==
    /\ pc = "idle"
    /\ \E r \in {do(client, "DELETE", LicensePath(client, id), NoBody, Nil, net)} :
           /\ Finish("DeleteLicense", [NoArgs EXCEPT !.licenseID = id], RetCode(r.httpCode, r.err))
           /\ Log(r, net)
    /\ UNCHANGED <<herr, resolved, server, calls, client, page, out, licenseID>>

\* GetLicenseResult that takes the first of several matches.
GetLicenseResult_FirstOfMany(subscriptionID, r) ==
    IF r.err # NoErr THEN RetStr("", r.httpCode, r.err)
    ELSE IF Len(r.out.Data) = 0 THEN RetStr("", r.httpCode, NoErr)
    ELSE IF r.out.Data[1].id = ""
    THEN RetStr("", r.httpCode,
                Errorf("semantic", "keygen: empty license id for subscriptionId "
                                       \o subscriptionID, FALSE))
    ELSE RetStr(r.out.Data[1].id, r.httpCode, NoErr)

\* What GetLicenseBySubscriptionID returns after do returned r.
GetLicenseResult(subscriptionID, r) ==
    IF r.err # NoErr THEN RetStr("", r.httpCode, r.err)
    ELSE IF Len(r.out.Data) = 0 THEN RetStr("", r.httpCode, NoErr)
    ELSE IF Len(r.out.Data) > 1
    THEN RetStr("", r.httpCode,
                Errorf("semantic", "keygen: multiple licenses for subscriptionId "
                                       \o subscriptionID, FALSE))
    ELSE IF r.out.Data[1].id = ""
    THEN RetStr("", r.httpCode,
                Errorf("semantic", "keygen: empty license id for subscriptionId "
                                       \o subscriptionID, FALSE))
    ELSE RetStr(r.out.Data[1].id, r.httpCode, NoErr)

GetLicenseBySubscriptionID(subscriptionID, net) ==
    /\ pc = "idle"
    /\ \E r \in {do(client, "GET",
                    LicensesPath(client) \o "?"
                        \o Encode([k \in {"metadata[subscriptionId]"} |-> subscriptionID]),
                    NoBody, "getLicenseBySubscriptionResponse", net)} :
           /\ Finish("GetLicenseBySubscriptionID",
                     [NoArgs EXCEPT !.subscriptionID = subscriptionID],
                     GetLicenseResult(subscriptionID, r))
           /\ Log(r, net)
    /\ UNCHANGED <<herr, resolved, server, calls, client, page, out, licenseID>>

\* Entry of ListLicensesByPolicy: out is nil and page is 1 before the loop.
ListLicensesByPolicy(policyID) ==
    /\ pc = "idle"
    /\ pc' = "page"
    /\ op' = "ListLicensesByPolicy"
    /\ args' = [NoArgs EXCEPT !.policyID = policyID]
    /\ page' = 1
    /\ out' = NilSlice
    /\ UNCHANGED <<herr, resolved, server, calls, client, licenseID, ret, reqs, resps, closes>>

\* Entry of ListLicenseKeysByPolicy, which runs ListLicensesByPolicy.
ListLicenseKeysByPolicy(policyID) ==
    /\ pc = "idle"
    /\ pc' = "page"
    /\ op' = "ListLicenseKeysByPolicy"
    /\ args' = [NoArgs EXCEPT !.policyID = policyID]
    /\ page' = 1
    /\ out' = NilSlice
    /\ UNCHANGED <<herr, resolved, server, calls, client, licenseID, ret, reqs, resps, closes>>

\* ListFailure that hands back what was accumulated before the failure.
ListFailure_Partial(acc, r) == RetList(acc, r.httpCode, r.err)

\* return nil, httpCode, err: a page failed after acc was accumulated.
ListFailure(acc, r) == RetList(NilSlice, r.httpCode, r.err)

\* LastPage with a limit of two pages on the client's side.
LastPage_PageLimit(resp) == ~resp.Next \/ page >= 2

\* LastPage that also stops at a page without items.
LastPage_StopOnEmpty(resp) == ~resp.Next \/ resp.Data = << >>

\* resp.Links.Next == nil: the page just decoded is the last one.
LastPage(resp) == ~resp.Next

RECURSIVE NonEmptyKeys(_)
NonEmptyKeys(s) ==
    IF s = << >> THEN << >>
    ELSE IF s[1].Key # "" THEN <<s[1].Key>> \o NonEmptyKeys(Tail(s))
    ELSE NonEmptyKeys(Tail(s))

\* keys = the non-empty Key of every item, in a new non-nil slice.
KeysOf(items) == [isNil |-> FALSE, elems |-> NonEmptyKeys(items.elems)]

\* PageQuery that numbers the pages from 0.
PageQuery_ZeroBased(n) ==
    [k \in {"page[number]", "page[size]"} |-> IF k = "page[number]" THEN Itoa(n - 1) ELSE "100"]

\* The query of the n-th page of a listing: q.Set("page[number]", n) and
\* q.Set("page[size]", "100").
PageQuery(n) ==
    [k \in {"page[number]", "page[size]"} |-> IF k = "page[number]" THEN Itoa(n) ELSE "100"]

\* The same with q.Set(filter, value).
FilteredPageQuery(filter, value, n) ==
    [k \in {filter, "page[number]", "page[size]"} |->
        IF k = filter THEN value ELSE PageQuery(n)[k]]

\* PageStep that asks for the same page again when its fetch failed.
PageStep_RetryFailedPage(r, acc) ==
    IF r.err # NoErr
    THEN UNCHANGED <<pc, op, args, ret, page, out>>
    ELSE IF LastPage(r.out)
    THEN /\ Finish(op, args,
                   IF op = "ListLicenseKeysByPolicy"
                   THEN RetList(KeysOf(acc), r.httpCode, NoErr)
                   ELSE RetList(acc, r.httpCode, NoErr))
         /\ out' = acc
         /\ page' = page
    ELSE /\ out' = acc
         /\ page' = page + 1
         /\ UNCHANGED <<pc, op, args, ret>>

\* The rest of one loop iteration after do returned r; acc is out with the
\* items of the page appended.
PageStep(r, acc) ==
    IF r.err # NoErr
    THEN /\ Finish(op, args, ListFailure(out, r))
         /\ UNCHANGED <<page, out>>
    ELSE IF LastPage(r.out)
    THEN /\ Finish(op, args,
                   IF op = "ListLicenseKeysByPolicy"
                   THEN RetList(KeysOf(acc), r.httpCode, NoErr)
                   ELSE RetList(acc, r.httpCode, NoErr))
         /\ out' = acc
         /\ page' = page
    ELSE /\ out' = acc
         /\ page' = page + 1
         /\ UNCHANGED <<pc, op, args, ret>>

\* One iteration of the loop of ListLicensesByPolicy.
ListLicensesByPolicyPage(net) ==
    /\ pc = "page"
    /\ op \in {"ListLicensesByPolicy", "ListLicenseKeysByPolicy"}
    /\ page <= MaxPages
    /\ \E r \in {do(client, "GET",
                    LicensesPath(client) \o "?" \o Encode(FilteredPageQuery("policy", args.policyID, page)),
                    NoBody, "listLicensesByPolicyResponse", net)} :
           /\ Log(r, net)
           /\ PageStep(r, AppendAll(out, LicenseSummaries(r.out.Data)))
    /\ UNCHANGED <<herr, resolved, server, calls, client, licenseID>>

(* ----------------------------- validation ------------------------------ *)

\* ResolvedID without the test for an empty data.id.
ResolvedID_NoEmptyCheck(licenseKey, r) ==
    IF r.err # NoErr THEN [id |-> "", httpCode |-> r.httpCode, err |-> r.err, r |-> r]
    ELSE [id |-> r.out.ID, httpCode |-> r.httpCode, err |-> NoErr, r |-> r]

\* What ResolveLicenseID returns after do returned r.
ResolvedID(licenseKey, r) ==
    IF r.err # NoErr THEN [id |-> "", httpCode |-> r.httpCode, err |-> r.err, r |-> r]
    ELSE IF r.out.ID = ""
    THEN [id |-> "", httpCode |-> r.httpCode, r |-> r,
          err |-> Errorf("semantic", "keygen: no license id found of licenseKey " \o licenseKey,
                         FALSE)]
    ELSE [id |-> r.out.ID, httpCode |-> r.httpCode, err |-> NoErr, r |-> r]

\* ResolveLicenseID that answers from memory for a key it has resolved before:
\* no request is sent.
ResolveLicenseID_Cached(c, licenseKey, net) ==
    IF licenseKey \in resolved
    THEN [id |-> "lic1", httpCode |-> 200, err |-> NoErr,
          r |-> Unsent(BuildRequest(c, "POST", ValidateKeyPath(c),
                                    [meta |-> [key |-> licenseKey]]))]
    ELSE ResolvedID(licenseKey,
                    do(c, "POST", ValidateKeyPath(c), [meta |-> [key |-> licenseKey]],
                       "licenseValidationResponse", net))

\* ResolveLicenseID(ctx, licenseKey) against the transport outcome net.
ResolveLicenseID(c, licenseKey, net) ==
    ResolvedID(licenseKey,
               do(c, "POST", ValidateKeyPath(c), [meta |-> [key |-> licenseKey]],
                  "licenseValidationResponse", net))

\* A caller runs ResolveLicenseID.
CallResolveLicenseID(licenseKey, net) ==
    /\ pc = "idle"
    /\ \E res \in {ResolveLicenseID(client, licenseKey, net)} :
           /\ Finish("ResolveLicenseID", [NoArgs EXCEPT !.licenseKey = licenseKey],
                     RetStr(res.id, res.httpCode, res.err))
           /\ Log(res.r, net)
    /\ UNCHANGED <<herr, resolved, server, calls, client, page, out, licenseID>>

\* Validate returns the LicenseValidation of the response (its Key here).
Validate(licenseKey, fingerprint, net) ==
    /\ pc = "idle"
    /\ \E r \in {do(client, "POST", ValidateKeyPath(client),
                    [meta |-> [key |-> licenseKey, scope |-> [fingerprint |-> fingerprint]]],
                    "licenseValidationResponse", net)} :
           /\ Finish("Validate",
                     [NoArgs EXCEPT !.licenseKey = licenseKey, !.fingerprint = fingerprint],
                     IF r.err # NoErr THEN RetStr("", r.httpCode, r.err)
                     ELSE RetStr(r.out.Key, r.httpCode, NoErr))
           /\ Log(r, net)
    /\ UNCHANGED <<herr, resolved, server, calls, client, page, out, licenseID>>

(* ----------------------------- machines -------------------------------- *)

\* After ResolveLicenseID returned res: its error is returned as it is,
\* otherwise the operation goes on at position next with the license ID.
AfterResolve(name, a, res, failure, next) ==
    IF res.err # NoErr
    THEN /\ Finish(name, a, failure)
         /\ UNCHANGED licenseID
    ELSE /\ pc' = next
         /\ op' = name
         /\ args' = a
         /\ licenseID' = res.id
         /\ UNCHANGED ret

\* ActivateMachine up to the return of ResolveLicenseID.
ActivateMachine(licenseKey, fingerprint, name, platform, net) ==
    /\ pc = "idle"
    /\ \E res \in {ResolveLicenseID(client, licenseKey, net)} :
           /\ Log(res.r, net)
           /\ AfterResolve("ActivateMachine",
                           [NoArgs EXCEPT !.licenseKey = licenseKey, !.fingerprint = fingerprint,
                                          !.name = name, !.platform = platform],
                           res, RetCode(res.httpCode, res.err), "post")
    /\ UNCHANGED <<herr, resolved, server, calls, client, page, out>>

\* The machine ActivateMachine asks for: empty name/platform take the defaults.
CreateMachineRequest(c, a, id) ==
    [type |-> "machines", fingerprint |-> a.fingerprint,
     platform |-> IF a.platform = "" THEN c.defaultPlatform ELSE a.platform,
     name |-> IF a.name = "" THEN c.defaultMachineName ELSE a.name,
     license |-> id]

\* ActivateMachine after the license was resolved: POST /machines.
ActivateMachinePost(net) ==
    /\ pc = "post"
    /\ \E r \in {do(client, "POST", MachinesPath(client),
                    CreateMachineRequest(client, args, licenseID), "machineResponse", net)} :
           /\ Finish(op, args, RetCode(r.httpCode, r.err))
           /\ Log(r, net)
    /\ UNCHANGED <<herr, resolved, server, calls, client, page, out, licenseID>>

\* What ListMachines returns after do returned r.
MachineList(r) ==
    IF r.err # NoErr
    THEN [list |-> NilSlice, httpCode |-> r.httpCode, err |-> r.err, r |-> r]
    ELSE [list |-> [isNil |-> FALSE, elems |-> Machines(r.out.Data)],
          httpCode |-> r.httpCode, err |-> NoErr, r |-> r]

\* ListMachines(ctx, licenseID) against the transport outcome net: one
\* request, for page 1.
ListMachines(c, id, net) ==
    MachineList(do(c, "GET", MachinesPath(c) \o "?" \o Encode(FilteredPageQuery("license", id, 1)),
                   NoBody, "machinesListResponse", net))

\* A caller runs ListMachines.
CallListMachines(id, net) ==
    /\ pc = "idle"
    /\ \E lm \in {ListMachines(client, id, net)} :
           /\ Finish("ListMachines", [NoArgs EXCEPT !.licenseID = id],
                     RetList(lm.list, lm.httpCode, lm.err))
           /\ Log(lm.r, net)
    /\ UNCHANGED <<herr, resolved, server, calls, client, page, out, licenseID>>

\* DeactivateMachine that goes on to list the machines after a failed resolution.
DeactivateMachine_IgnoreResolveError(licenseKey, fingerprint, net) ==
    /\ pc = "idle"
    /\ \E res \in {ResolveLicenseID(client, licenseKey, net)} :
           /\ Log(res.r, net)
           /\ pc' = "list"
           /\ op' = "DeactivateMachine"
           /\ args' = [NoArgs EXCEPT !.licenseKey = licenseKey, !.fingerprint = fingerprint]
           /\ licenseID' = res.id
           /\ UNCHANGED ret
    /\ UNCHANGED <<herr, resolved, server, calls, client, page, out>>

\* DeactivateMachine up to the return of ResolveLicenseID.
DeactivateMachine(licenseKey, fingerprint, net) ==
    /\ pc = "idle"
    /\ \E res \in {ResolveLicenseID(client, licenseKey, net)} :
           /\ Log(res.r, net)
           /\ AfterResolve("DeactivateMachine",
                           [NoArgs EXCEPT !.licenseKey = licenseKey, !.fingerprint = fingerprint],
                           res, RetFound(FALSE, res.httpCode, res.err), "list")
    /\ UNCHANGED <<herr, resolved, server, calls, client, page, out>>

\* FirstMatch that takes the last machine with the fingerprint.
FirstMatch_Last(ms, fingerprint) ==
    IF \E i \in 1..Len(ms) : ms[i].Fingerprint = fingerprint
    THEN CHOOSE i \in 1..Len(ms) :
             /\ ms[i].Fingerprint = fingerprint
             /\ \A j \in (i + 1)..Len(ms) : ms[j].Fingerprint # fingerprint
    ELSE 0

\* FirstMatch that takes the first machine whatever its fingerprint.
FirstMatch_IgnoreFingerprint(ms, fingerprint) == IF ms # << >> THEN 1 ELSE 0

\* Index of the first machine of ms with the fingerprint, 0 when there is none.
FirstMatch(ms, fingerprint) ==
    IF \E i \in 1..Len(ms) : ms[i].Fingerprint = fingerprint
    THEN CHOOSE i \in 1..Len(ms) :
             /\ ms[i].Fingerprint = fingerprint
             /\ \A j \in 1..(i - 1) : ms[j].Fingerprint # fingerprint
    ELSE 0

\* DeactivateMachine: ListMachines and the search for the fingerprint.
DeactivateMachineList(net) ==
    /\ pc = "list"
    /\ \E lm \in {ListMachines(client, licenseID, net)} :
           /\ Log(lm.r, net)
           /\ IF lm.err # NoErr
              THEN /\ Finish(op, args, RetFound(FALSE, lm.httpCode, lm.err))
                   /\ UNCHANGED out
              ELSE IF FirstMatch(lm.list.elems, args.fingerprint) = 0
              THEN /\ Finish(op, args, RetFound(FALSE, lm.httpCode, NoErr))
                   /\ out' = lm.list
              ELSE /\ pc' = "delete"
                   /\ out' = lm.list
                   /\ UNCHANGED <<op, args, ret>>
    /\ UNCHANGED <<herr, resolved, server, calls, client, page, licenseID>>

\* DeactivateMachine: the DELETE of the first machine that matched.
DeactivateMachineDelete(net) ==
    /\ pc = "delete"
    /\ \E r \in {do(client, "DELETE",
                    MachinePath(client, out.elems[FirstMatch(out.elems, args.fingerprint)].ID),
                    NoBody, Nil, net)} :
           /\ Finish(op, args, RetFound(TRUE, r.httpCode, r.err))
           /\ Log(r, net)
    /\ UNCHANGED <<herr, resolved, server, calls, client, page, out, licenseID>>

\* Entry of ListAllMachines: out is nil and page is 1 before the loop.
ListAllMachines ==
    /\ pc = "idle"
    /\ pc' = "page"
    /\ op' = "ListAllMachines"
    /\ args' = NoArgs
    /\ page' = 1
    /\ out' = NilSlice
    /\ UNCHANGED <<herr, resolved, server, calls, client, licenseID, ret, reqs, resps, closes>>

\* One iteration of the loop of ListAllMachines.
ListAllMachinesPage(net) ==
    /\ pc = "page"
    /\ op = "ListAllMachines"
    /\ page <= MaxPages
    /\ \E r \in {do(client, "GET",
                    MachinesPath(client) \o "?" \o Encode(PageQuery(page)),
                    NoBody, "machinesListResponse", net)} :
           /\ Log(r, net)
           /\ PageStep(r, AppendAll(out, Machines(r.out.Data)))
    /\ UNCHANGED <<herr, resolved, server, calls, client, licenseID>>

(* ------------------------------- Next ---------------------------------- *)

\* The key the call that returns has resolved to a license ID, if any: its
\* validate-key exchange gave a non-empty data.id.
ResolvedKeys ==
    IF /\ op \in {"ActivateMachine", "DeactivateMachine", "ResolveLicenseID"}
       /\ Len(resps) >= 1
       /\ ResolveLicenseID(client, args.licenseKey, resps[1]).err = NoErr
    THEN {args.licenseKey}
    ELSE {}

\* The caller takes the results; the locals of the call are gone.
Return ==
    /\ pc = "done"
    /\ pc' = "idle"
    /\ op' = ""
    /\ args' = NoArgs
    /\ page' = 0
    /\ out' = NilSlice
    /\ licenseID' = ""
    /\ ret' = NoRet
    /\ reqs' = << >>
    /\ resps' = << >>
    /\ closes' = << >>
    /\ resolved' = resolved \cup ResolvedKeys
    /\ UNCHANGED <<herr, server, calls, client>>

Next ==
    \/ \E p \in PolicyIDs, m \in Metas, net \in NetOutcomes : CreateLicense(p, m, net)
    \/ \E id \in LicenseIDs, net \in NetOutcomes : DeleteLicense(id, net)
    \/ \E s \in SubscriptionIDs, net \in NetOutcomes : GetLicenseBySubscriptionID(s, net)
    \/ \E p \in PolicyIDs : ListLicensesByPolicy(p)
    \/ \E p \in PolicyIDs : ListLicenseKeysByPolicy(p)
    \/ \E net \in NetOutcomes : ListLicensesByPolicyPage(net)
    \/ \E k \in LicenseKeys, f \in Fingerprints, n \in Names, pl \in Platforms, net \in NetOutcomes :
           ActivateMachine(k, f, n, pl, net)
    \/ \E net \in NetOutcomes : ActivateMachinePost(net)
    \/ \E k \in LicenseKeys, f \in Fingerprints, net \in NetOutcomes : DeactivateMachine(k, f, net)
    \/ \E net \in NetOutcomes : DeactivateMachineList(net)
    \/ \E net \in NetOutcomes : DeactivateMachineDelete(net)
    \/ \E id \in LicenseIDs, net \in NetOutcomes : CallListMachines(id, net)
    \/ ListAllMachines
    \/ \E net \in NetOutcomes : ListAllMachinesPage(net)
    \/ \E k \in LicenseKeys, f \in Fingerprints, net \in NetOutcomes : Validate(k, f, net)
    \/ \E k \in LicenseKeys, net \in NetOutcomes : CallResolveLicenseID(k, net)
    \/ Return

Spec == Init /\ [][Next]_vars

(* ------------- listing calls running at the same time ------------------ *)

\* Paths of the n-th page of the two paged listings.
LicensesPagePath(c, policyID, n) ==
    LicensesPath(c) \o "?" \o Encode(FilteredPageQuery("policy", policyID, n))
MachinesPagePath(c, n) == MachinesPath(c) \o "?" \o Encode(PageQuery(n))

\* Answers of the stub server for one page: items and a next link, items
\* and no next link, a validation failure.
PageMore  == [kind |-> "resp", code |-> 200,
              body |-> Render([t |-> "list", items |-> <<ItemB, ItemA>>, next |-> TRUE])]
PageLast  == [kind |-> "resp", code |-> 200,
              body |-> Render([t |-> "list", items |-> <<ItemA>>, next |-> FALSE])]
PageError == [kind |-> "resp", code |-> 422, body |-> ErrorBody]

\* A stub server whose state does not change: the answer to a request is a
\* function of the page number in its query.
Servers == [1..MaxPages -> {PageMore, PageLast, PageError}]

\* The page the query of path asks for.
PageOfPath(c, path) ==
    CHOOSE n \in 1..MaxPages :
        \/ path = MachinesPagePath(c, n)
        \/ \E p \in PolicyIDs : path = LicensesPagePath(c, p, n)

\* The answer of server srv to the request req.
Route(srv, c, req) == srv[PageOfPath(c, req.path)]

\* The locals of a listing call that has not started; reqs and after are the
\* history of the call: the requests it sent, and the calls that had returned
\* when it started.
IdleCall == [pc |-> "idle", op |-> "", policyID |-> "", page |-> 0, out |-> NilSlice,
             ret |-> NoRet, reqs |-> << >>, after |-> {}]

\* StartedCall that goes on from the page the calls before it stopped at.
StartedCall_ResumePage(name, policyID, returned) ==
    [IdleCall EXCEPT !.pc = "page", !.op = name, !.policyID = policyID,
                     !.page = 1 + Cardinality(returned), !.after = returned]

\* The locals at the loop entry of ListLicensesByPolicy / ListAllMachines:
\* var out, page := 1.
StartedCall(name, policyID, returned) ==
    [IdleCall EXCEPT !.pc = "page", !.op = name, !.policyID = policyID, !.page = 1,
                     !.after = returned]

\* Locals with one page counter for all calls: the furthest any call has got.
Locals_SharedCounter(cs, i) ==
    [cs[i] EXCEPT !.page = CHOOSE p \in {cs[j].page : j \in DOMAIN cs} :
                               \A j \in DOMAIN cs : cs[j].page <= p]

\* The locals of call i: each call has its own page and out.
Locals(cs, i) == cs[i]

\* The request of one loop iteration of the call with locals l.
PageRequestPath(c, l) ==
    IF l.op = "ListAllMachines" THEN MachinesPagePath(c, l.page)
    ELSE LicensesPagePath(c, l.policyID, l.page)

\* The items of resp.Data as the call with locals l appends them.
PageItems(l, data) ==
    IF l.op = "ListAllMachines" THEN Machines(data) ELSE LicenseSummaries(data)

\* One loop iteration on the locals l after do returned r: the locals after
\* it (PageStep, on the locals of a call).
LoopIteration(l, r) ==
    IF r.err # NoErr
    THEN [l EXCEPT !.pc = "done", !.ret = ListFailure(l.out, r),
                   !.reqs = Append(l.reqs, r.req.path)]
    ELSE IF LastPage(r.out)
    THEN [l EXCEPT !.pc = "done", !.out = AppendAll(l.out, PageItems(l, r.out.Data)),
                   !.ret = RetList(AppendAll(l.out, PageItems(l, r.out.Data)), r.httpCode, NoErr),
                   !.reqs = Append(l.reqs, r.req.path)]
    ELSE [l EXCEPT !.out = AppendAll(l.out, PageItems(l, r.out.Data)), !.page = l.page + 1,
                   !.reqs = Append(l.reqs, r.req.path)]

\* What do returns for the next page of the call with locals l.
FetchPage(c, srv, l) ==
    do(c, "GET", PageRequestPath(c, l), NoBody,
       IF l.op = "ListAllMachines" THEN "machinesListResponse"
       ELSE "listLicensesByPolicyResponse",
       Route(srv, c, [path |-> PageRequestPath(c, l)]))

InitListings ==
    /\ client = New("acct", "tok", StubBaseURL, "", "")
    /\ server \in Servers
    /\ calls = [i \in 1..MaxCalls |-> IdleCall]
    /\ pc = "idle"
    /\ op = ""
    /\ args = NoArgs
    /\ page = 0
    /\ out = NilSlice
    /\ licenseID = ""
    /\ ret = NoRet
    /\ reqs = << >>
    /\ resps = << >>
    /\ closes = << >>
    /\ resolved = {}
    /\ herr = NoHTTPError

\* Call i enters ListLicensesByPolicy or ListAllMachines.
StartListing(i, name, policyID) ==
    /\ calls[i].pc = "idle"
    /\ calls' = [calls EXCEPT ![i] = StartedCall(name, policyID,
                                         {j \in 1..MaxCalls : calls[j].pc = "done"})]
    /\ UNCHANGED <<client, server, pc, op, args, page, out, licenseID, ret, reqs, resps, closes,
                   resolved, herr>>

\* Call i runs one iteration of its loop.
ListingPage(i) ==
    /\ calls[i].pc = "page"
    /\ calls[i].page <= MaxPages
    /\ \E l \in {Locals(calls, i)} :
           \E r \in {FetchPage(client, server, l)} :
               calls' = [calls EXCEPT ![i] = LoopIteration(l, r)]
    /\ UNCHANGED <<client, server, pc, op, args, page, out, licenseID, ret, reqs, resps, closes,
                   resolved, herr>>

NextListings ==
    \/ \E i \in 1..MaxCalls : StartListing(i, "ListLicensesByPolicy", "pol1")
    \/ \E i \in 1..MaxCalls : StartListing(i, "ListAllMachines", "")
    \/ \E i \in 1..MaxCalls : ListingPage(i)

SpecListings == InitListings /\ [][NextListings]_vars

(* ============================== HTTPError ============================== *)

\* The values of the fields of an HTTPError.  The struct and its fields are
\* exported, so every combination can be built by a caller; Err is an
\* interface and nil when there is no underlying error.
HTTPErrorMethods  == {"GET", "POST", "DELETE"}
HTTPErrorPaths    == {"/test", "/accounts/acct/licenses/lic1"}
HTTPErrorStatuses == {0, 404, 422}
HTTPErrorBodies   == {"", "keygen: POST /test -> HTTP 422: test error"}
HTTPErrorErrs     == {NoErr,
                      Errorf("", "HTTP 422: test error", FALSE),
                      Errorf("", "keygen: do request: EOF", TRUE)}

\* type HTTPError struct.
HTTPError ==
    [Method : HTTPErrorMethods, Path : HTTPErrorPaths, StatusCode : HTTPErrorStatuses,
     Body : HTTPErrorBodies, Err : HTTPErrorErrs]

\* A method call on a nil interface value: a run-time panic.
NilDereference ==
    [kind |-> "panic",
     str |-> "runtime error: invalid memory address or nil pointer dereference",
     err |-> NoErr]

\* A string a method returned.
ReturnedString(str) == [kind |-> "string", str |-> str, err |-> NoErr]

\* err.Error() on a value of the interface error.
ErrError(err) == IF err = NoErr THEN NilDereference ELSE ReturnedString(err.msg)

\* func (e *HTTPError) Error() string.
Error(e) ==
    IF e.Body # "" THEN ReturnedString(e.Body) ELSE ErrError(e.Err)

\* func (e *HTTPError) Unwrap() error.
Unwrap(e) == [kind |-> "error", str |-> "", err |-> e.Err]

\* A caller holds an HTTPError built from any field values.
InitHTTPError ==
    /\ herr \in {[e |-> v, call |-> "", result |-> NoResult] : v \in HTTPError}
    /\ client = New("acct", "tok", StubBaseURL, "", "")
    /\ server = << >>
    /\ calls = << >>
    /\ pc = "idle"
    /\ op = ""
    /\ args = NoArgs
    /\ page = 0
    /\ out = NilSlice
    /\ licenseID = ""
    /\ ret = NoRet
    /\ reqs = << >>
    /\ resps = << >>
    /\ closes = << >>
    /\ resolved = {}

\* The caller calls Error() on the value.
CallError ==
    /\ herr.call = ""
    /\ herr' = [herr EXCEPT !.call = "Error", !.result = Error(herr.e)]
    /\ UNCHANGED <<client, server, calls, pc, op, args, page, out, licenseID, ret, reqs,
                   resps, closes, resolved>>

\* The caller calls Unwrap() on the value.
CallUnwrap ==
    /\ herr.call = ""
    /\ herr' = [herr EXCEPT !.call = "Unwrap", !.result = Unwrap(herr.e)]
    /\ UNCHANGED <<client, server, calls, pc, op, args, page, out, licenseID, ret, reqs,
                   resps, closes, resolved>>

\* The method returned and the caller goes on with the same value; a panic
\* does not return.
ReturnHTTPError ==
    /\ herr.call # ""
    /\ herr.result.kind # "panic"
    /\ herr' = [herr EXCEPT !.call = "", !.result = NoResult]
    /\ UNCHANGED <<client, server, calls, pc, op, args, page, out, licenseID, ret, reqs,
                   resps, closes, resolved>>

NextHTTPError == CallError \/ CallUnwrap \/ ReturnHTTPError

SpecHTTPError == InitHTTPError /\ [][NextHTTPError]_vars

(* ======================= properties of the client ====================== *)

Done == pc = "done"

\* The last exchange of the running call.
LastReq  == reqs[Len(reqs)]
LastResp == resps[Len(resps)]

\* A status code of the success range [200,299].
Is2xx(code) == code \in 200..299

\* The call returned on an exchange that was answered with a non-2xx status.
ReturnedOnNon2xx ==
    /\ Done
    /\ Len(resps) > 0
    /\ LastResp.kind = "resp"
    /\ ~Is2xx(LastResp.code)
    /\ ret.err # NoErr

\* The call returned on an exchange that was answered with a 2xx status.
ReturnedOn2xx ==
    /\ Done
    /\ Len(resps) > 0
    /\ LastResp.kind = "resp"
    /\ Is2xx(LastResp.code)

\* C1: for every operation and every response with a status outside
\* [200,299], the error returned is an *HTTPError whose StatusCode, Method and
\* Path are those of the exchange.
C1_Non2xxIsHTTPError ==
    ReturnedOnNon2xx =>
        /\ ret.err.type = "*HTTPError"
        /\ ret.err.StatusCode = LastResp.code
        /\ ret.err.Method = LastReq.method
        /\ ret.err.Path = LastReq.path

\* C2: for every non-2xx response with a non-empty body, the message of the
\* returned error is "keygen: <METHOD> <path> -> HTTP <code>: <body>", the
\* body verbatim and the path without the base URL.
C2_MessageWithBody ==
    (ReturnedOnNon2xx /\ LastResp.body # "") =>
        /\ ret.err.msg = "keygen: " \o LastReq.method \o " " \o LastReq.path \o " -> HTTP "
                             \o ToString(LastResp.code) \o ": " \o LastResp.body
        /\ LastReq.url = client.baseURL \o LastReq.path
        /\ (op = "CreateLicense" /\ LastResp.code = 422 /\ LastResp.body = ErrorBody) =>
               ret.err.msg = "keygen: POST /accounts/acct/licenses -> HTTP 422: "
                                 \o "{\"errors\":[{\"code\":\"MACHINE_LIMIT_EXCEEDED\"}]}"

\* A paged listing fails on its second page with 422 and an error document.
C2_Witness ==
    /\ Done
    /\ op = "ListLicensesByPolicy"
    /\ Len(resps) = 2
    /\ ret.err.msg = "keygen: GET /accounts/acct/licenses?page%5Bnumber%5D=2&page%5Bsize%5D=100"
                         \o "&policy=pol1 -> HTTP 422: "
                         \o "{\"errors\":[{\"code\":\"MACHINE_LIMIT_EXCEEDED\"}]}"

\* C3: for every non-2xx response with an empty body, the message of the
\* returned error is "keygen: <METHOD> <path> -> HTTP <code>", nothing after
\* the code, and the status code returned is the response's.
C3_MessageWithoutBody ==
    (ReturnedOnNon2xx /\ LastResp.body = "") =>
        /\ ret.err.msg = "keygen: " \o LastReq.method \o " " \o LastReq.path \o " -> HTTP "
                             \o ToString(LastResp.code)
        /\ ret.httpCode = LastResp.code

\* CreateLicense is answered 300 with an empty body.
C3_Witness ==
    /\ Done
    /\ op = "CreateLicense"
    /\ Len(resps) = 1
    /\ LastResp.kind = "resp"
    /\ LastResp.body = ""
    /\ ret.httpCode = 300
    /\ ret.err.msg = "keygen: POST /accounts/acct/licenses -> HTTP 300"

\* C4: for every response with a status in [200,299] no *HTTPError is
\* returned, whatever the body: the call succeeds, or fails with a decode or
\* a semantic error.
C4_No2xxAPIError ==
    ReturnedOn2xx =>
        /\ ret.err.type # "*HTTPError"
        /\ ret.err.site # "status"
        /\ ret.err = NoErr \/ ret.err.site \in {"decode", "semantic"}
        /\ ret.httpCode = LastResp.code

\* A 200 answer with an error document as body makes CreateLicense fail with
\* the semantic error.
C4_Witness ==
    /\ ReturnedOn2xx
    /\ op = "CreateLicense"
    /\ LastResp.code = 200
    /\ LastResp.body = ErrorBody
    /\ ret.err.site = "semantic"


(* ------------------------------ paging --------------------------------- *)

\* The listings that follow the next links, and those with the wrapper.
PagedOps    == {"ListLicensesByPolicy", "ListAllMachines"}
AllPagedOps == PagedOps \cup {"ListLicenseKeysByPolicy"}

\* The document the server sent in the i-th answer of the running call.
RespDoc(i) == JSONParse(resps[i].body)

\* The i-th answer is a page the client can read: 2xx with a collection
\* document (or an object without data).
GoodPage(i) ==
    /\ resps[i].kind = "resp"
    /\ Is2xx(resps[i].code)
    /\ RespDoc(i).t \in {"list", "empty"}

\* The i-th page carries a next link.
HasNext(i) == RespDoc(i).t = "list" /\ RespDoc(i).next

ItemsOfPage(i) == IF RespDoc(i).t = "list" THEN RespDoc(i).items ELSE << >>

\* The items of pages 1..k, page after page.
RECURSIVE ConcatPages(_)
ConcatPages(k) == IF k = 0 THEN << >> ELSE ConcatPages(k - 1) \o ItemsOfPage(k)

\* The server answered pages 1..k with 2xx, 1..k-1 with a next link, k without.
ServedPages(k) ==
    /\ k >= 1
    /\ \A i \in 1..k : GoodPage(i) /\ (HasNext(i) <=> i < k)

\* C5: against a server that answers pages 1..k with 2xx, pages 1..k-1 with a
\* next link and page k without, ListLicensesByPolicy and ListAllMachines
\* issue exactly k requests and return the items of pages 1..k concatenated in
\* server order, nothing reordered and nothing removed.
C5_ListingConcatenatesPages ==
    (op \in PagedOps /\ ServedPages(Len(resps))) =>
        /\ Done
        /\ ret.err = NoErr
        /\ Len(reqs) = Len(resps)
        /\ ret.list.elems = IF op = "ListLicensesByPolicy"
                            THEN LicenseSummaries(ConcatPages(Len(resps)))
                            ELSE Machines(ConcatPages(Len(resps)))

\* Page 1 has two items and a next link, page 2 repeats one of them and has
\* no next link: three items after two requests.
C5_Witness ==
    /\ Done
    /\ op = "ListAllMachines"
    /\ Len(reqs) = 2
    /\ ret.err = NoErr
    /\ ret.list.elems = <<Machine(ItemB), Machine(ItemA), Machine(ItemA)>>

\* The last answer of the running call is no page the client can read.
LastPageFailed ==
    /\ Len(resps) >= 1
    /\ ~GoodPage(Len(resps))

\* C6: when the fetch of a page fails (non-2xx, transport or decode failure)
\* the listing returns at once with exactly the error of that exchange, a nil
\* list whatever was accumulated, and no request for the following page.
C6_ListingAbortsOnFailure ==
    (op \in AllPagedOps /\ LastPageFailed) =>
        /\ Done
        /\ ret.err # NoErr
        /\ ret.err = do(client, LastReq.method, LastReq.path, NoBody,
                        IF op = "ListAllMachines" THEN "machinesListResponse"
                        ELSE "listLicensesByPolicyResponse", LastResp).err
        /\ ret.httpCode = LastResp.code
        /\ ret.list = NilSlice
        /\ Len(reqs) = page

\* The second page fails after the first one delivered items.
C6_Witness ==
    /\ Done
    /\ op = "ListAllMachines"
    /\ Len(reqs) = 2
    /\ LastResp.kind = "resp"
    /\ LastResp.code = 422
    /\ out.elems = <<Machine(ItemB), Machine(ItemA)>>
    /\ ret.list.isNil
    /\ ret.err.site = "status"

\* C7: a paged listing stops after a page if and only if the page has no next
\* link: after a page with a next link, with or without items, the call is
\* not over and asks for the following page; a page without next link is the
\* last request.
C7_StopsIffNoNext ==
    (op \in AllPagedOps) =>
        \A i \in 1..Len(resps) :
            GoodPage(i) =>
                IF HasNext(i)
                THEN i < Len(resps) \/ (pc = "page" /\ page = i + 1)
                ELSE i = Len(resps) /\ Done /\ ret.err = NoErr

\* An empty page with a next link was followed by a second request, whose
\* page has items and no next link.
C7_Witness ==
    /\ Done
    /\ op = "ListLicensesByPolicy"
    /\ Len(reqs) = 2
    /\ GoodPage(1) /\ HasNext(1) /\ ItemsOfPage(1) = << >>
    /\ GoodPage(2) /\ ~HasNext(2) /\ ItemsOfPage(2) = <<ItemA>>

\* C8: ListMachines(licenseID) follows the next links like the other
\* listings: it returns only after a page without next link, with the
\* machines of all pages.
C8_ListMachinesFollowsPages ==
    (Done /\ op = "ListMachines" /\ ret.err = NoErr) =>
        /\ ~HasNext(Len(resps))
        /\ ret.list.elems = Machines(ConcatPages(Len(resps)))

(* ----------------------------- resolver -------------------------------- *)

\* data.id of the i-th answer.
DataID(i) == IF RespDoc(i).t = "obj" THEN RespDoc(i).id ELSE ""

\* The i-th answer is a 2xx response that decodes into a validation response.
Validated(i) ==
    /\ resps[i].kind = "resp"
    /\ Is2xx(resps[i].code)
    /\ RespDoc(i).t \in {"obj", "empty"}

\* C9: when the validate-key exchange of ResolveLicenseID ends with 2xx and
\* the decoded data.id is empty, it returns an empty ID and a semantic error
\* that is no *HTTPError; with a non-empty data.id it returns that ID and no
\* error.
C9_ResolveEmptyID ==
    (Done /\ op = "ResolveLicenseID" /\ Len(resps) = 1 /\ Validated(1)) =>
        IF DataID(1) = ""
        THEN /\ ret.str = ""
             /\ ret.err # NoErr
             /\ ret.err.type # "*HTTPError"
             /\ ret.err.site = "semantic"
        ELSE /\ ret.str = DataID(1)
             /\ ret.err = NoErr

\* A 200 answer whose data has an empty id.
C9_Witness ==
    /\ Done
    /\ op = "ResolveLicenseID"
    /\ Len(resps) = 1
    /\ LastResp.code = 200
    /\ LastResp.body = "{\"data\":{\"id\":\"\",\"attributes\":{\"key\":\"KEY1\"}}}"
    /\ ret.err.msg = "keygen: no license id found of licenseKey KEY1"

ResolvingOps == {"ActivateMachine", "DeactivateMachine"}

\* The resolution of the running call failed: no request could be sent, or
\* the first exchange gave no usable license ID.
ResolutionFailed ==
    \/ Len(resps) = 0
    \/ ~Validated(1)
    \/ DataID(1) = ""

\* C10: ActivateMachine and DeactivateMachine send the validate-key request
\* of ResolveLicenseID before any other; when the resolution fails they
\* return exactly the resolver's error and send nothing else.
C10_ResolveFirst ==
    (op \in ResolvingOps) =>
        /\ Len(reqs) >= 1 =>
               /\ reqs[1].method = "POST"
               /\ reqs[1].path = "/accounts/acct/licenses/actions/validate-key"
               /\ reqs[1].body = [meta |-> [key |-> args.licenseKey]]
        /\ ResolutionFailed =>
               /\ Done
               /\ Len(reqs) <= 1
               /\ ret.err # NoErr
               /\ ret.err = ResolveLicenseID(client, args.licenseKey,
                                IF Len(resps) = 0 THEN CHOOSE n \in NetOutcomes : TRUE
                                ELSE resps[1]).err
               /\ ~ret.found

\* DeactivateMachine is over after one request: the key resolved to no ID.
C10_Witness ==
    /\ Done
    /\ op = "DeactivateMachine"
    /\ Len(reqs) = 1
    /\ LastResp.code = 200
    /\ ret.err.site = "semantic"

(* ------------------------ the transport executor ----------------------- *)

\* The operations that call do once.
SingleExchangeOps == {"CreateLicense", "DeleteLicense", "GetLicenseBySubscriptionID",
                      "ListMachines", "Validate", "ResolveLicenseID"}

\* The decode target of the i-th call of do in the running operation.
ShapeOfExchange(i) ==
    IF op = "CreateLicense" THEN "licenseCreateResponse"
    ELSE IF op = "DeleteLicense" THEN Nil
    ELSE IF op = "GetLicenseBySubscriptionID" THEN "getLicenseBySubscriptionResponse"
    ELSE IF op \in {"ListLicensesByPolicy", "ListLicenseKeysByPolicy"}
    THEN "listLicensesByPolicyResponse"
    ELSE IF op \in {"ListAllMachines", "ListMachines"} THEN "machinesListResponse"
    ELSE IF op \in {"Validate", "ResolveLicenseID"} THEN "licenseValidationResponse"
    ELSE IF i = 1 THEN "licenseValidationResponse"
    ELSE IF op = "ActivateMachine" THEN "machineResponse"
    ELSE IF i = 2 THEN "machinesListResponse"
    ELSE Nil

\* The four ways do returns after a response was received.
ExitPaths == {"non-2xx", "no target", "decoded", "decode failure"}

\* The way do took for the i-th exchange of the running call.
ExitPath(i) ==
    IF resps[i].kind = "neterr" THEN "no response"
    ELSE IF ~Is2xx(resps[i].code) THEN "non-2xx"
    ELSE IF ShapeOfExchange(i) = Nil THEN "no target"
    ELSE IF ~DecodeBody(ShapeOfExchange(i), resps[i]).ok THEN "decode failure"
    ELSE "decoded"

\* C11: for every exchange in which a response was received its body is
\* closed exactly once when do returns, on each of the four exit paths; an
\* exchange without a response closes nothing, and a request that was never
\* sent leaves nothing to close.
C11_BodyClosedOnce ==
    /\ Len(closes) = Len(resps)
    /\ \A i \in 1..Len(resps) :
           /\ ExitPath(i) \in ExitPaths => closes[i].closed = 1
           /\ ExitPath(i) = "no response" => closes[i].closed = 0
           /\ closes[i].drained <=>
                  (ReadToEnd(resps[i]) /\ ExitPath(i) \in {"non-2xx", "no target"})
           /\ closes[i].decoded <=> ExitPath(i) \in {"decoded", "decode failure"}

\* DeactivateMachine went through three of the paths (decoded, decoded, no
\* target) and closed each body once.
C11_Witness ==
    /\ Done
    /\ op = "DeactivateMachine"
    /\ Len(resps) = 3
    /\ ExitPath(1) = "decoded" /\ ExitPath(3) = "no target"
    /\ \A i \in 1..3 : closes[i].closed = 1

\* A 200 answer that is no JSON: the decode fails and the body is closed.
C11_WitnessDecodeFailure ==
    /\ Done
    /\ op = "CreateLicense"
    /\ Len(resps) = 1
    /\ LastResp.body = Garbage
    /\ ExitPath(1) = "decode failure"
    /\ closes[1].closed = 1

\* The i-th exchange failed: no response, a non-2xx status, or a body that
\* does not decode into the target.
ExchangeFailed(i) ==
    \/ resps[i].kind = "neterr"
    \/ ~Is2xx(resps[i].code)
    \/ /\ ShapeOfExchange(i) # Nil
       /\ ~DecodeBody(ShapeOfExchange(i), resps[i]).ok

\* The calls of do the running operation can have made so far.
MaxExchanges ==
    IF op \in SingleExchangeOps THEN 1
    ELSE IF op = "ActivateMachine" THEN 2
    ELSE IF op = "DeactivateMachine" THEN 3
    ELSE page

\* C12: nothing is retried.  Every request has one answer, no request of a
\* call is sent twice, a failed exchange (transport failure, non-2xx, decode
\* failure) is the last one of its call and is returned as an error, and an
\* operation with a single exchange such as DeleteLicense or CreateLicense has
\* sent exactly one request when it returns (none when the request could not
\* be built).
C12_NoRetry ==
    /\ Len(reqs) = Len(resps)
    /\ Len(reqs) <= MaxExchanges
    /\ \A i, j \in 1..Len(reqs) : i # j => reqs[i] # reqs[j]
    /\ \A i \in 1..Len(resps) :
           ExchangeFailed(i) => i = Len(resps) /\ Done /\ ret.err # NoErr
    /\ (Done /\ op \in SingleExchangeOps) =>
           Len(reqs) = IF URLParses(client, "") THEN 1 ELSE 0

\* DeleteLicense was answered 422 and returned after its only request.
C12_Witness ==
    /\ Done
    /\ op = "DeleteLicense"
    /\ Len(reqs) = 1
    /\ LastResp.kind = "resp"
    /\ LastResp.code = 422
    /\ ret.err.site = "status"

\* The call returned without a response to its last request: the request
\* could not be built, or the transport failed (connection, cancelled ctx).
ReturnedWithoutResponse ==
    /\ Done
    /\ ret.err # NoErr
    /\ Len(resps) = 0 \/ LastResp.kind = "neterr"

\* C13: when the request cannot be built or the transport fails before a
\* response is received (a cancelled context included), the operation returns
\* an error with the status code 0, no string and no list; the error is no
\* *HTTPError and was not built from a response status.
C13_TransportErrorHasNoStatus ==
    ReturnedWithoutResponse =>
        /\ ret.httpCode = 0
        /\ ret.err.type = "*fmt.wrapError"
        /\ ret.err.type # "*HTTPError"
        /\ ret.err.site \in {"newRequest", "doRequest"}
        /\ ret.err.site = "newRequest" <=> ~URLParses(client, "")
        /\ ret.str = "" /\ ret.list = NilSlice

\* ActivateMachine resolved the license and then lost the connection: the
\* code of the first exchange is not handed back.
C13_Witness ==
    /\ Done
    /\ op = "ActivateMachine"
    /\ Len(resps) = 2
    /\ resps[1].code = 200
    /\ LastResp.kind = "neterr"
    /\ ret.httpCode = 0
    /\ ret.err.msg = "keygen: do request: context canceled"

(* --------------------------- kinds of failure -------------------------- *)

\* The call returned on an exchange whose 2xx body did not decode.
ReturnedOnDecodeFailure ==
    /\ Done
    /\ Len(resps) >= 1
    /\ ExitPath(Len(resps)) = "decode failure"

\* The errors do can return for the last request when no response comes or
\* the response has a non-2xx status.
TransportAndStatusErrors ==
    {do(client, LastReq.method, LastReq.path, LastReq.body, ShapeOfExchange(Len(resps)), net).err :
        net \in {n \in NetOutcomes : n.kind = "neterr" \/ ~Is2xx(n.code)}}

\* C14: when a 2xx response cannot be decoded into the requested shape, the
\* operation returns the decode error "keygen: decode response: <cause>",
\* which no transport failure and no non-2xx status produces and which is no
\* *HTTPError, and it returns no result value: empty string, nil list, not found.
C14_DecodeErrorDistinct ==
    ReturnedOnDecodeFailure =>
        /\ ret.err # NoErr
        /\ ret.err.site = "decode"
        /\ ret.err.msg = "keygen: decode response: "
                             \o DecodeBody(ShapeOfExchange(Len(resps)), LastResp).cause
        /\ ret.err.type # "*HTTPError"
        /\ ret.err \notin TransportAndStatusErrors
        /\ ret.str = "" /\ ret.list = NilSlice /\ ~ret.found

\* The second page of a listing is answered 200 with an empty body: the items
\* of the first page are not returned.
C14_Witness ==
    /\ Done
    /\ op = "ListLicensesByPolicy"
    /\ Len(resps) = 2
    /\ LastResp.code = 200
    /\ LastResp.body = ""
    /\ out.elems # << >>
    /\ ret.list = NilSlice
    /\ ret.err.msg = "keygen: decode response: EOF"

\* C15: only the error of a non-2xx response comes with a status code: when
\* an operation fails with a transport, decode or semantic error, the status
\* code handed back with it is 0, not the code of a response.
C15_OnlyAPIErrorsCarryStatus ==
    (Done /\ ret.err # NoErr /\ ret.err.site # "status") => ret.httpCode = 0

\* The create-license exchange ended with 2xx and a document that decodes.
CreateLicenseDecoded ==
    /\ Done
    /\ op = "CreateLicense"
    /\ Len(resps) = 1
    /\ Validated(1)

\* attributes.key of the data of the i-th answer.
DataKey(i) == IF RespDoc(i).t = "obj" THEN RespDoc(i).key ELSE ""

\* C16: when the create-license exchange ends with 2xx and the decoded
\* response has an empty key, CreateLicense returns an empty key and a
\* semantic error that is no *HTTPError; with a non-empty key it returns
\* exactly that key and no error.
C16_CreateLicenseEmptyKey ==
    CreateLicenseDecoded =>
        IF DataKey(1) = ""
        THEN /\ ret.str = ""
             /\ ret.err # NoErr
             /\ ret.err.site = "semantic"
             /\ ret.err.type # "*HTTPError"
             /\ ret.err.msg = "keygen: license creation returned empty key"
        ELSE /\ ret.str = DataKey(1)
             /\ ret.err = NoErr

\* The server answered 200 with a license that has an ID and no key.
C16_Witness ==
    /\ CreateLicenseDecoded
    /\ LastResp.code = 200
    /\ LastResp.body = "{\"data\":{\"id\":\"lic1\",\"attributes\":{\"key\":\"\"}}}"
    /\ ret.str = ""
    /\ ret.err.site = "semantic"

\* C17: on a 2xx response GetLicenseBySubscriptionID goes by the number of
\* matches: none gives an empty ID and no error, exactly one with a non-empty
\* ID gives that ID and no error, more than one gives an empty ID and a
\* semantic error, never the ID of the first match; ListLicensesByPolicy with
\* no matching license gives an empty list and no error.
C17_MatchCount ==
    /\ (Done /\ op = "GetLicenseBySubscriptionID" /\ Len(resps) = 1 /\ GoodPage(1)) =>
           IF Len(ItemsOfPage(1)) = 0
           THEN ret.str = "" /\ ret.err = NoErr
           ELSE IF Len(ItemsOfPage(1)) = 1 /\ ItemsOfPage(1)[1].id # ""
           THEN ret.str = ItemsOfPage(1)[1].id /\ ret.err = NoErr
           ELSE IF Len(ItemsOfPage(1)) > 1
           THEN /\ ret.str = ""
                /\ ret.err.site = "semantic"
                /\ ret.err.msg = "keygen: multiple licenses for subscriptionId "
                                     \o args.subscriptionID
           ELSE TRUE
    /\ (op = "ListLicensesByPolicy" /\ ServedPages(Len(resps))
            /\ ConcatPages(Len(resps)) = << >>) =>
           Done /\ ret.list.elems = << >> /\ ret.err = NoErr

\* Two licenses carry the subscription ID: neither ID is returned.
C17_Witness ==
    /\ Done
    /\ op = "GetLicenseBySubscriptionID"
    /\ Len(resps) = 1
    /\ GoodPage(1)
    /\ ItemsOfPage(1) = <<ItemB, ItemA>>
    /\ ret.str = ""
    /\ ret.err.msg = "keygen: multiple licenses for subscriptionId sub1"

\* The machines ListMachines handed to the running DeactivateMachine: those
\* of the answer to its second request, none when that exchange failed or
\* never took place.
ListedMachines ==
    IF Len(resps) >= 2 /\ GoodPage(2) THEN ItemsOfPage(2) ELSE << >>

\* Some listed machine has the fingerprint of the call.
SomeMachineMatches ==
    \E k \in 1..Len(ListedMachines) : ListedMachines[k].fingerprint = args.fingerprint

C18_WitnessFound ==
    /\ Done
    /\ op = "DeactivateMachine"
    /\ ListedMachines = <<ItemB, ItemA>>
    /\ ret.found
    /\ ret.err = NoErr
    /\ reqs[3].path = "/accounts/acct/machines/m2"

(* ------------------- repeated and concurrent listings ------------------ *)

CallIDs == 1..MaxCalls

\* The answer a is a page the client can read, and it carries a next link.
PageGood(a) ==
    /\ a.kind = "resp"
    /\ Is2xx(a.code)
    /\ JSONParse(a.body).t \in {"list", "empty"}
PageHasNext(a) == JSONParse(a.body).t = "list" /\ JSONParse(a.body).next

\* The page at which a listing against srv ends: the first one that fails or
\* has no next link; 0 when every page up to MaxPages has a next link.
StopPage(srv) ==
    IF \E n \in 1..MaxPages : ~PageGood(srv[n]) \/ ~PageHasNext(srv[n])
    THEN CHOOSE n \in 1..MaxPages :
             /\ ~PageGood(srv[n]) \/ ~PageHasNext(srv[n])
             /\ \A m \in 1..(n - 1) : PageGood(srv[m]) /\ PageHasNext(srv[m])
    ELSE 0

\* The items srv serves on pages 1..k, page after page.
RECURSIVE ServerItems(_, _)
ServerItems(srv, k) ==
    IF k = 0 THEN << >>
    ELSE ServerItems(srv, k - 1)
             \o (IF JSONParse(srv[k].body).t = "list" THEN JSONParse(srv[k].body).items
                 ELSE << >>)

\* The requests a call like l sends for pages 1..k when it runs alone.
AloneRequests(l, k) == [n \in 1..k |-> PageRequestPath(client, [l EXCEPT !.page = n])]

\* What a call like l returns when it runs alone against srv, which ends the
\* listing at page k.
AloneReturn(l, srv, k) ==
    IF PageGood(srv[k])
    THEN RetList([isNil |-> FALSE, elems |-> PageItems(l, ServerItems(srv, k))],
                 srv[k].code, NoErr)
    ELSE RetList(NilSlice, srv[k].code,
                 StatusError("GET", PageRequestPath(client, [l EXCEPT !.page = k]),
                             srv[k].code, srv[k].body))

\* Call j started after call i had returned, with the same operation and policy.
Repeats(i, j) ==
    /\ calls[i].pc = "done"
    /\ i \in calls[j].after
    /\ calls[j].op = calls[i].op
    /\ calls[j].policyID = calls[i].policyID

\* C19: when a successful ListLicensesByPolicy call is repeated with the same
\* policy against a server whose state has not changed, the second call
\* returns the same ordered list and sends the same sequence of requests:
\* it starts again at page 1 with an empty accumulator.
C19_RepeatedListingIdentical ==
    \A i, j \in CallIDs :
        (Repeats(i, j) /\ calls[i].op = "ListLicensesByPolicy" /\ calls[i].ret.err = NoErr) =>
            /\ calls[j].reqs = SubSeq(calls[i].reqs, 1, Len(calls[j].reqs))
            /\ calls[j].pc = "page" =>
                   /\ calls[j].page = Len(calls[j].reqs) + 1
                   /\ calls[j].out.elems = SubSeq(calls[i].ret.list.elems, 1,
                                                  Len(calls[j].out.elems))
            /\ calls[j].pc = "done" =>
                   /\ calls[j].reqs = calls[i].reqs
                   /\ calls[j].ret = calls[i].ret

\* The second call ran after the first had returned three items from two
\* pages, and returned the same three items.
C19_Witness ==
    /\ Repeats(1, 2)
    /\ calls[1].op = "ListLicensesByPolicy"
    /\ calls[2].pc = "done"
    /\ Len(calls[2].reqs) = 2
    /\ calls[2].ret.err = NoErr
    /\ calls[2].ret.list.elems = LicenseSummaries(<<ItemB, ItemA, ItemA>>)

\* C20: under every interleaving of the page requests of the listing calls
\* that run on one client, each call asks for the pages 1, 2, .. in turn, holds
\* the items of exactly the pages it fetched, and returns what it returns
\* when it runs alone: nothing of another call's result, no page skipped or
\* repeated.
C20_ConcurrentListingsIsolated ==
    \A i \in CallIDs :
        /\ calls[i].pc = "page" =>
               /\ StopPage(server) = 0 \/ calls[i].page <= StopPage(server)
               /\ calls[i].reqs = AloneRequests(calls[i], calls[i].page - 1)
               /\ calls[i].out.elems = PageItems(calls[i], ServerItems(server, calls[i].page - 1))
        /\ calls[i].pc = "done" =>
               /\ StopPage(server) # 0
               /\ calls[i].page = StopPage(server)
               /\ calls[i].reqs = AloneRequests(calls[i], StopPage(server))
               /\ calls[i].ret = AloneReturn(calls[i], server, StopPage(server))

\* Two calls that ran at the same time, one over licenses and one over
\* machines, each returned the three items of its own two pages.
C20_Witness ==
    /\ calls[1].pc = "done" /\ calls[2].pc = "done"
    /\ calls[1].after = {} /\ calls[2].after = {}
    /\ calls[1].op = "ListLicensesByPolicy" /\ calls[2].op = "ListAllMachines"
    /\ Len(calls[1].reqs) = 2 /\ Len(calls[2].reqs) = 2
    /\ calls[1].ret.list.elems = LicenseSummaries(<<ItemB, ItemA, ItemA>>)
    /\ calls[2].ret.list.elems = Machines(<<ItemB, ItemA, ItemA>>)

(* ----------------------------- cancellation ---------------------------- *)

\* ctx was cancelled while the i-th exchange was in flight: before a response
\* came, or while its body was read.
CancelledInFlight(i) ==
    \/ resps[i].kind = "cut"
    \/ resps[i].kind = "neterr" /\ resps[i].body = "context canceled"

\* The error wraps the cancellation of ctx that the transport reported.
CarriesCancellation(err) ==
    err.msg \in {"keygen: do request: context canceled",
                 "keygen: decode response: context canceled"}

\* C21: when ctx is cancelled while an exchange is in flight, that exchange
\* is the last of the call: no request follows it, and the operation returns
\* with the cancellation error of the transport.
C21_CancelReturnsTransportError ==
    \A i \in 1..Len(resps) :
        CancelledInFlight(i) =>
            /\ i = Len(resps)
            /\ Done
            /\ ret.err # NoErr
            /\ CarriesCancellation(ret.err)

(* ------------------------------ requests ------------------------------- *)

MediaType == "application/vnd.api+json"

\* C22: every request the client sends carries Accept: application/vnd.api+json
\* and Authorization: Bearer <the client's apiToken>; Content-Type:
\* application/vnd.api+json is set if and only if the request has a body, and
\* the GET and DELETE requests have none.
C22_RequestHeaders ==
    \A i \in 1..Len(reqs) :
        /\ reqs[i].accept = MediaType
        /\ reqs[i].authorization = "Bearer " \o client.apiToken
        /\ reqs[i].contentType \in {"", MediaType}
        /\ reqs[i].contentType = MediaType <=> reqs[i].body # NoBody
        /\ reqs[i].method \in {"GET", "DELETE"} =>
               reqs[i].body = NoBody /\ reqs[i].contentType = ""
        /\ reqs[i].method = "POST" => reqs[i].contentType = MediaType

\* DeactivateMachine of the client with token tok2 sent a POST with a body,
\* then a GET and a DELETE without.
C22_Witness ==
    /\ Done
    /\ op = "DeactivateMachine"
    /\ Len(reqs) = 3
    /\ \A i \in 1..3 : reqs[i].authorization = "Bearer tok2"
    /\ reqs[1].contentType = MediaType
    /\ reqs[2].method = "GET" /\ reqs[2].contentType = ""
    /\ reqs[3].method = "DELETE" /\ reqs[3].contentType = ""

(* ---------------------------- page counter ----------------------------- *)

\* The path of the request for page n of the running listing, written out.
ExpectedPagePath(n) ==
    IF op = "ListAllMachines"
    THEN "/accounts/acct/machines?page%5Bnumber%5D=" \o ToString(n) \o "&page%5Bsize%5D=100"
    ELSE "/accounts/acct/licenses?page%5Bnumber%5D=" \o ToString(n)
             \o "&page%5Bsize%5D=100&policy=" \o args.policyID

\* C23: within one paged listing call the n-th request carries
\* page[number]=n and page[size]=100: the counter starts at 1, goes up by
\* exactly 1 after every page that was fetched and had a next link, and stays
\* where it is after a page that failed.
C23_PageCounter ==
    (op \in AllPagedOps) =>
        /\ \A n \in 1..Len(reqs) : reqs[n].method = "GET" /\ reqs[n].path = ExpectedPagePath(n)
        /\ page >= 1
        /\ pc = "page" => page = Len(reqs) + 1
        /\ (Done /\ Len(reqs) >= 1) => page = Len(reqs)
        /\ (Done /\ Len(reqs) = 0) => page = 1 /\ ret.err.site = "newRequest"

\* The third page of a listing failed: three requests, for pages 1, 2 and 3,
\* and the counter is still 3.
C23_Witness ==
    /\ Done
    /\ op = "ListLicensesByPolicy"
    /\ Len(reqs) = 3
    /\ ret.err # NoErr
    /\ page = 3
    /\ reqs[3].path = "/accounts/acct/licenses?page%5Bnumber%5D=3&page%5Bsize%5D=100&policy=pol1"

(* ---------------------------- configuration --------------------------- *)

\* The three clients, as New and their options built them: WithDefaultMachine
\* was given no name and no platform, the name "box" only, the platform "osx"
\* only.
BuiltAsConfigured ==
    /\ client.accountID = "acct"
    /\ client.baseURL = DefaultBaseURL =>
           /\ client.apiToken = "tok"
           /\ client.defaultMachineName = "dappnode" /\ client.defaultPlatform = "linux"
    /\ client.baseURL = StubBaseURL =>
           /\ client.apiToken = "tok2"
           /\ client.defaultMachineName = "box" /\ client.defaultPlatform = "linux"
    /\ client.baseURL = BadBaseURL =>
           /\ client.apiToken = "tok"
           /\ client.defaultMachineName = "dappnode" /\ client.defaultPlatform = "osx"

\* The machine ActivateMachine asked for has the caller's name and platform
\* where they are not empty and the client's defaults where they are.
ActivateUsesDefaults ==
    (op = "ActivateMachine" /\ Len(reqs) = 2) =>
        /\ reqs[2].body.name =
               (IF args.name # "" THEN args.name ELSE client.defaultMachineName)
        /\ reqs[2].body.platform =
               (IF args.platform # "" THEN args.platform ELSE client.defaultPlatform)
        /\ reqs[2].body.fingerprint = args.fingerprint

\* C24: the configuration of the client (account ID, token, base URL, default
\* machine name and platform) is what New and its options built and no step
\* of any operation changes it; ActivateMachine sends the caller's name and
\* platform when they are not empty and the configured defaults otherwise;
\* WithDefaultMachine with an empty name or platform leaves "dappnode" or
\* "linux" for that field.
C24_ConfigurationFixed ==
    /\ [](BuiltAsConfigured /\ ActivateUsesDefaults)
    /\ [][client' = client]_vars

\* ActivateMachine with no name and no platform on the client configured with
\* the name "box" only: the machine is "box" on "linux".
C24_Witness ==
    /\ Done
    /\ op = "ActivateMachine"
    /\ Len(reqs) = 2
    /\ args.name = "" /\ args.platform = ""
    /\ reqs[2].body.name = "box"
    /\ reqs[2].body.platform = "linux"

(* ------------------------- no cached license ID ------------------------ *)

\* C25: the license ID of a key is never cached.  An ActivateMachine or
\* DeactivateMachine call with a key that an earlier call on the same client
\* resolved sends its own validate-key request first, and when the server no
\* longer gives an ID for the key (the license was deleted) the call fails at
\* the resolution with the resolver's error and sends nothing else.
C25_NeverCached ==
    (op \in ResolvingOps /\ args.licenseKey \in resolved) =>
        /\ Len(reqs) >= 1
        /\ reqs[1].method = "POST"
        /\ reqs[1].path = "/accounts/acct/licenses/actions/validate-key"
        /\ reqs[1].body = [meta |-> [key |-> args.licenseKey]]
        /\ ResolutionFailed =>
               /\ Done
               /\ Len(reqs) = 1
               /\ ret.err # NoErr
               /\ ret.err = ResolveLicenseID(client, args.licenseKey, resps[1]).err
               /\ ~ret.found

\* KEY1 was resolved by an earlier call; now the server answers the
\* validate-key request with a document without data, and DeactivateMachine
\* fails with "no license id found".
C25_Witness ==
    /\ "KEY1" \in resolved
    /\ Done
    /\ op = "DeactivateMachine"
    /\ Len(reqs) = 1
    /\ LastResp.kind = "resp"
    /\ LastResp.code = 200
    /\ LastResp.body = "{}"
    /\ ret.err.msg = "keygen: no license id found of licenseKey KEY1"

(* ----------------------- responses without target ---------------------- *)

\* The i-th exchange had no decode target and was answered 2xx with a body
\* that arrived whole.
NoTargetSuccess(i) ==
    /\ ShapeOfExchange(i) = Nil
    /\ resps[i].kind = "resp"
    /\ Is2xx(resps[i].code)

\* C26: when no typed result is requested (DeleteLicense, the DELETE of
\* DeactivateMachine) and the status is 2xx, the body is read to its end and
\* discarded without being decoded, and the operation returns the status and
\* no error whatever the body is, a body that is no JSON included.
C26_NoTargetDrains ==
    \A i \in 1..Len(resps) :
        NoTargetSuccess(i) =>
            /\ closes[i].drained
            /\ ~closes[i].decoded
            /\ closes[i].closed = 1
            /\ i = Len(resps)
            /\ Done
            /\ ret.err = NoErr
            /\ ret.httpCode = resps[i].code

\* DeleteLicense answered 200 with "<html>".
C26_Witness ==
    /\ Done
    /\ op = "DeleteLicense"
    /\ Len(resps) = 1
    /\ LastResp.kind = "resp"
    /\ LastResp.code = 200
    /\ LastResp.body = Garbage
    /\ closes[1].drained
    /\ ret.err = NoErr

(* ----------------------------- termination ----------------------------- *)

\* The page was fetched and has a next link.
PageWithNext(i) == GoodPage(i) /\ HasNext(i)

\* C27: a paged listing returns at the first page that has no next link or
\* fails, and at no other: nothing on the client's side limits the number of
\* pages, so as long as every page is answered 2xx with a next link the call
\* has not returned and the page counter is one more than the pages fetched
\* (unless the request of a page cannot be built, which is a failure of that
\* page without an answer).
C27_NoPageLimit ==
    (op \in AllPagedOps) =>
        /\ (\A i \in 1..Len(resps) : PageWithNext(i)) =>
               \/ /\ pc = "page"
                  /\ page = Len(resps) + 1
                  /\ ret = NoRet
               \/ /\ Done
                  /\ ret.err.site = "newRequest"
        /\ (\E i \in 1..Len(resps) : ~PageWithNext(i)) =>
               /\ Done
               /\ ~PageWithNext(Len(resps))
               /\ \A i \in 1..(Len(resps) - 1) : PageWithNext(i)

\* Every page up to MaxPages had a next link: the call goes on with page
\* MaxPages + 1.
C27_Witness ==
    /\ op = "ListAllMachines"
    /\ pc = "page"
    /\ Len(resps) = MaxPages
    /\ \A i \in 1..MaxPages : PageWithNext(i)
    /\ page = MaxPages + 1

(* ------------------------ status code and error ------------------------ *)

\* No response was received in the last exchange of the call that returned:
\* the request could not be built, or the transport failed.
NoResponseReceived == Len(resps) = 0 \/ LastResp.kind = "neterr"

\* C28: the status code and the error an operation returns fit together: no
\* error implies a code in [200,299]; a code outside [200,299] implies an
\* error; the code is 0 exactly when no response was received in the last
\* exchange, and otherwise it is the code of the last response, which for a
\* paged listing that succeeds is the last page fetched.
C28_CodeAndErrorConsistent ==
    Done =>
        /\ ret.err = NoErr => Is2xx(ret.httpCode)
        /\ ~Is2xx(ret.httpCode) => ret.err # NoErr
        /\ ret.httpCode = 0 <=> NoResponseReceived
        /\ ~NoResponseReceived => ret.httpCode = LastResp.code
        /\ (op \in AllPagedOps /\ ret.err = NoErr) =>
               /\ Len(resps) = page
               /\ ret.httpCode = resps[page].code

\* A listing of two pages, answered 200 and 299, returns 299.
C28_Witness ==
    /\ Done
    /\ op = "ListLicensesByPolicy"
    /\ Len(resps) = 2
    /\ resps[1].code = 200
    /\ resps[2].code = 299
    /\ ret.err = NoErr
    /\ ret.httpCode = 299

(* -------------------------- DeactivateMachine -------------------------- *)

\* The machines with the fingerprint of the call among those listed.
MatchingMachines ==
    {k \in 1..Len(ListedMachines) : ListedMachines[k].fingerprint = args.fingerprint}

C29_WitnessNextPageIgnored ==
    /\ Done
    /\ op = "DeactivateMachine"
    /\ Len(reqs) = 2
    /\ PageWithNext(2)
    /\ args.fingerprint = "fp2"
    /\ ~ret.found
    /\ ret.err = NoErr

(* ------------------------------ HTTPError ------------------------------ *)

\* C30: Error() is defined for every HTTPError value: it returns Body when
\* Body is not empty and otherwise the message of Err, and for a value with
\* an empty Body and no Err it still returns a message instead of failing
\* with a nil dereference; Unwrap returns Err unchanged.
C30_ErrorDefinedForEveryValue ==
    /\ herr.call = "Error" =>
           /\ herr.result.kind = "string"
           /\ herr.e.Body # "" => herr.result.str = herr.e.Body
           /\ (herr.e.Body = "" /\ herr.e.Err # NoErr) => herr.result.str = herr.e.Err.msg
    /\ herr.call = "Unwrap" =>
           /\ herr.result.kind = "error"
           /\ herr.result.err = herr.e.Err

\* Error() was called on a value with an empty Body and a nil Err.
C30_WitnessNilDereference ==
    /\ herr.call = "Error"
    /\ herr.e.Body = ""
    /\ herr.e.Err = NoErr
    /\ herr.result = NilDereference

====
